---- MODULE Spec2Model ----
(***************************************************************************)
(* EDSR simulation (src/main.py): class System and the driver main().      *)
(*                                                                         *)
(* Numbers.  Python floats are modelled by exact rationals <<num, den>>    *)
(* with den > 0, kept in lowest terms.  Lengths are in atomic units,       *)
(* times in seconds, energies in Hartree.                                  *)
(***************************************************************************)
EXTENDS Integers, Sequences, FiniteSets, TLC

\* ------------------------------------------------------------------------
\* Bounds of the exploration
\* ------------------------------------------------------------------------
\* largest site count handed to System(...)
MaxLattices == 2
\* negative site counts handed to System(...) go down to -MaxNegLattices
MaxNegLattices == 1
\* eigenvalue real parts the dense solver may return are 0..MaxEig
MaxEig == 1
\* frames of the animation that are explored (the code runs number_of_frames)
MaxFrames == 2

\* ------------------------------------------------------------------------
\* Rational arithmetic
\* ------------------------------------------------------------------------
Abs(i) == IF i < 0 THEN 0 - i ELSE i

RECURSIVE GCD(_, _)
GCD(a, b) == IF b = 0 THEN a ELSE GCD(b, a % b)

Norm(n, d) ==
    LET s == IF d < 0 THEN 0 - 1 ELSE 1
        g == GCD(Abs(n), Abs(d))
    IN  <<(s * n) \div g, (s * d) \div g>>

R(i) == <<i, 1>>

RNeg(p) == <<0 - p[1], p[2]>>

\* over the least common denominator, so that the products stay small
RAdd(p, q) ==
    LET d == GCD(p[2], q[2])
    IN  Norm(p[1] * (q[2] \div d) + q[1] * (p[2] \div d), (p[2] \div d) * q[2])

RSub(p, q) == RAdd(p, RNeg(q))

\* cross-cancels first, so that products of large values stay small
RMul(p, q) ==
    LET g1 == GCD(Abs(p[1]), q[2])
        g2 == GCD(Abs(q[1]), p[2])
    IN  Norm((p[1] \div g1) * (q[1] \div g2), (p[2] \div g2) * (q[2] \div g1))

\* q # 0
RDiv(p, q) == RMul(p, IF q[1] < 0 THEN <<0 - q[2], 0 - q[1]>> ELSE <<q[2], q[1]>>)

RLe(p, q) == RSub(p, q)[1] <= 0

RLt(p, q) == RSub(p, q)[1] < 0

Floor(p) == p[1] \div p[2]

\* ------------------------------------------------------------------------
\* System.__init__: constants
\* ------------------------------------------------------------------------
\* total_length_m / a_0_SI = 7820e-9 / 5.2917721090380e-11 = 147776.58...,
\* kept to the whole atomic unit
total_length_au == 147776
\* hbar_SI / (e_SI * a_0_SI ** 2) = 235051.7... tesla per atomic unit of
\* flux density, kept to the whole tesla
tesla_per_au == 235052
pulse_frequency == 240
number_of_frames == 200
sentinel == 999999999
hbar == 1
g == 2
m == 1
e == 1
\* kwant.continuum.discretize(hamiltonian) is called without grid=...,
\* so the template lattice has kwant's default spacing
grid == 1

B_0_SI == <<1, 10>>
b_sl_SI == <<1, 4>>
mu_B == RDiv(R(e * hbar), R(2 * m))
pulse_velocity == R(pulse_frequency * total_length_au)

tesla_SI_to_au(tesla) == RDiv(tesla, R(tesla_per_au))


VARIABLES
    pc,            \* next statement of the driver
    ctx,           \* which caller runs the shared code (eigenstates, densities)
    err,           \* exception raised, "none" while running
    lattices,      \* self.lattices
    lattice_size,  \* self.lattice_size
    time,          \* self.time
    gaussian_mu,   \* self.gaussian_mu
    syst,          \* self.syst: <<>> before make_system, <<system>> after
    eig,           \* locals of eigenstates/showWavefunction: <<>> or <<result>>
    psi,           \* (psi1, psi2) returned by showWavefunction: <<>> or <<densities>>
    y3,            \* potential curve of the current frame: <<>> or <<curve>>
    line,          \* data held by the plot lines: <<>> or <<frame data>>
    frame          \* index i of the animation frame

vars == <<pc, ctx, err, lattices, lattice_size, time, gaussian_mu, syst, eig,
          psi, y3, line, frame>>

\* ------------------------------------------------------------------------
\* Potential (System.gaussian, System.potential, System.kwantPotential)
\* ------------------------------------------------------------------------
\* np.exp(-q) for q >= 0 in thousandths: e^-k for k = 0..8, linear
\* interpolation in between rounded to the thousandth, 0 beyond.
ExpTable == <<1000, 368, 135, 50, 18, 7, 2, 1, 0>>

ExpNeg(q) ==
    LET k == Floor(q)
    IN  IF k >= Len(ExpTable) - 1
        THEN R(0)
        ELSE LET hi == ExpTable[k + 1]
                 lo == ExpTable[k + 2]
                 f  == RSub(q, R(k))
             IN  Norm(hi - ((hi - lo) * f[1]) \div f[2], 1000)

\* exp(-(x - gaussian_mu - pulse_velocity * time)^2 / (2 * sig^2)); the
\* quotient is taken before the square
PulseCentre(mu, t) == RAdd(mu, RMul(pulse_velocity, t))

pulse_centre == PulseCentre(gaussian_mu, time)

gaussian(x, sig) ==
    LET r == RDiv(RSub(x, pulse_centre), sig)
    IN  ExpNeg(RDiv(RMul(r, r), R(2)))

\* mutant: the right end of the well left out
potential_open_end(x) ==
    IF RLe(R(0), x) /\ RLt(x, R(total_length_au))
    THEN RMul(<<1, 500>>, gaussian(x, RDiv(R(total_length_au), R(14))))
    ELSE R(sentinel)

\* mutant: the left end of the well left out
potential_open_start(x) ==
    IF RLt(R(0), x) /\ RLe(x, R(total_length_au))
    THEN RMul(<<1, 500>>, gaussian(x, RDiv(R(total_length_au), R(14))))
    ELSE R(sentinel)

potential(x) ==
    IF RLe(R(0), x) /\ RLe(x, R(total_length_au))
    THEN RMul(<<1, 500>>, gaussian(x, RDiv(R(total_length_au), R(14))))
    ELSE R(sentinel)

kwantPotential(x) == potential(RMul(x, lattice_size))

\* np.linspace(0, total_length_au, n), n >= 1
linspace(n) ==
    [k \in 1 .. n |->
        IF n = 1 THEN R(0)
        ELSE RDiv(R((k - 1) * total_length_au), R(n - 1))]

\* vectorize(self.potential)(x)
vpotential(x) == [k \in 1 .. Len(x) |-> potential(x[k])]

\* ------------------------------------------------------------------------
\* Lattice (System.make_system and the kwant template of __init__)
\* ------------------------------------------------------------------------
\* position of the site with tag i on the template lattice
SitePos(i) == R(i * grid)

\* mutant: the upper bound of the shape included
shape_closed(x) == RLe(R(0), x) /\ RLe(x, R(lattices))

shape(x) == RLe(R(0), x) /\ RLt(x, R(lattices))

\* Builder.fill: flood fill from the start site along the template's
\* nearest-neighbour hoppings, keeping the sites inside the shape
RECURSIVE Flood(_, _)
Flood(active, added) ==
    IF active = {}
    THEN added
    ELSE LET seen == added \cup active
             nbrs == {j \in UNION {{i - 1, i + 1} : i \in active} :
                          shape(SitePos(j)) /\ j \notin seen}
         IN  Flood(nbrs, seen)

FillSites == IF shape(SitePos(0)) THEN Flood({0}, {}) ELSE {}

\* hoppings of the template (site i to site i + 1) whose two ends were added
FillHoppings(sites) == {h \in sites \X sites : h[2] = h[1] + 1}

\* ------------------------------------------------------------------------
\* Hamiltonian (System.eigenstates, lines 114-121)
\* ------------------------------------------------------------------------
A_constant == RNeg(RDiv(RMul(RMul(R(g), mu_B), RMul(tesla_SI_to_au(B_0_SI), R(hbar))), R(2)))
B_constant == RNeg(RDiv(RMul(RMul(R(g), mu_B), RMul(tesla_SI_to_au(b_sl_SI), R(hbar))), R(2)))
C_constant == RDiv(R(hbar * hbar), R(2 * m))

\* The discretized "(C * k_x**2 + V(x)) * identity(2) + A * sigma_x +
\* B * x * sigma_y" on a lattice of spacing a: the on-site block of the site
\* at coordinate x is (2C/a^2 + V(x)) I + A sigma_x + B x sigma_y and the
\* hopping block is -C/a^2 I.  A finite-difference coefficient c/a^2 is kept
\* as the pair [c, a].
Onsite(i) ==
    [kin |-> [c |-> RMul(R(2), C_constant), a |-> R(grid)],
     V   |-> kwantPotential(SitePos(i)),
     sx  |-> A_constant,
     sy  |-> RMul(B_constant, SitePos(i))]

Hopping == [c |-> RNeg(C_constant), a |-> R(grid)]

\* syst.hamiltonian_submatrix(params=params)
hamiltonian_submatrix(s) ==
    [onsite |-> [i \in s.sites |-> Onsite(i)],
     hop    |-> [h \in s.hops |-> Hopping],
     dim    |-> 2 * Cardinality(s.sites)]

\* ------------------------------------------------------------------------
\* Eigen-solve (System.eigenstates, lines 123-133)
\* ------------------------------------------------------------------------
\* np.linalg.eig: the eigenvalues in no particular order, column k of the
\* eigenvector matrix paired with value k.  Only the real parts are kept:
\* argsort orders complex numbers by real part first, and np.real drops the
\* imaginary residue after the sort.
SolverOutputs(dim) == [1 .. dim -> 0 .. MaxEig]

\* eigenValues.argsort(): quicksort is not stable, so any permutation that
\* sorts the values may come back
ArgSorts(w) ==
    {p \in Permutations(1 .. Len(w)) :
        \A j \in 1 .. Len(w) - 1 : w[p[j]] <= w[p[j + 1]]}

\* mutant: the eigenvalues sorted, the eigenvector columns left in place
eigenstates_unpermuted(h, w, idx) ==
    [h            |-> h,
     w            |-> w,
     eigenValues  |-> [j \in 1 .. Len(w) |-> w[idx[j]]],
     eigenVectors |-> [j \in 1 .. Len(w) |-> j]]

\* eigenValues[idx], eigenVectors[:, idx]; a column is named by the index
\* it had in the solver's output
eigenstates(h, w, idx) ==
    [h            |-> h,
     w            |-> w,
     eigenValues  |-> [j \in 1 .. Len(w) |-> w[idx[j]]],
     eigenVectors |-> [j \in 1 .. Len(w) |-> idx[j]]]

Min(a, b) == IF a < b THEN a ELSE b

\* mutant: an index past the last column reads the last column
Column_clamped(eigenVectors, j) ==
    IF Len(eigenVectors) = 0
    THEN <<>>
    ELSE <<eigenVectors[Min(j, Len(eigenVectors) - 1) + 1]>>

\* eigenVectors[0::2, j] and eigenVectors[1::2, j] for a Python index
\* j >= 0: <<column>>, or <<>> when numpy raises IndexError
Column(eigenVectors, j) ==
    IF j < Len(eigenVectors) THEN <<eigenVectors[j + 1]>> ELSE <<>>

\* mutant: integer division
FrameTime_floor(i) == R((i \div pulse_frequency) \div number_of_frames)

\* self.time of frame i: (i / pulse_frequency) / number_of_frames
FrameTime(i) == RDiv(RDiv(R(i), R(pulse_frequency)), R(number_of_frames))

FramesRun == Min(number_of_frames, MaxFrames)

LatticeInputs == (0 - MaxNegLattices) .. MaxLattices

Init ==
    /\ pc = "construct"
    /\ ctx = "main"
    /\ err = "none"
    /\ lattices = 0
    /\ lattice_size = R(0)
    /\ time = R(0)
    /\ gaussian_mu = R(0)
    /\ syst = <<>>
    /\ eig = <<>>
    /\ psi = <<>>
    /\ y3 = <<>>
    /\ line = <<>>
    /\ frame = 0

\* System.__init__(hamiltonian, lattices): line 25 divides by lattices, which
\* raises ZeroDivisionError for 0 and for nothing else.
Construct ==
    /\ pc = "construct"
    /\ \E n \in LatticeInputs :
        /\ lattices' = n
        /\ time' = R(0)
        /\ gaussian_mu' = R(0)
        /\ IF n = 0
           THEN /\ err' = "ZeroDivisionError"
                /\ pc' = "raised"
                /\ UNCHANGED lattice_size
           ELSE /\ lattice_size' = RDiv(R(total_length_au), R(n))
                /\ pc' = "make_system"
                /\ UNCHANGED err
    /\ UNCHANGED <<ctx, syst, eig, psi, y3, line, frame>>

\* System.make_system: fill the builder, plot it, finalize it.  With no site
\* inside the shape kwant adds nothing; whether plotting the empty builder
\* then raises is left open.
make_system ==
    /\ pc = "make_system"
    /\ LET sites == FillSites
       IN  \/ /\ syst' = <<[sites |-> sites, hops |-> FillHoppings(sites)]>>
              /\ pc' = "animate"
              /\ UNCHANGED err
           \/ /\ sites = {}
              /\ err' = "ValueError"
              /\ pc' = "raised"
              /\ UNCHANGED syst
    /\ UNCHANGED <<ctx, lattices, lattice_size, time, gaussian_mu, eig, psi, y3,
                   line, frame>>

\* animateWavefunction, line 203, up to the call of showWavefunction
animateWavefunction ==
    /\ pc = "animate"
    /\ gaussian_mu' = R(0)
    /\ ctx' = "anim_init"
    /\ pc' = "eigenstates"
    /\ UNCHANGED <<err, lattices, lattice_size, time, syst, eig, psi, y3, line,
                   frame>>

\* mutant: the Hamiltonian of the frame before is reused when there is one
Solve_cached ==
    /\ pc = "eigenstates"
    /\ \E h \in {IF line # <<>> THEN line[1].h ELSE hamiltonian_submatrix(syst[1])} :
           \E w \in SolverOutputs(h.dim) :
               \E idx \in ArgSorts(w) :
                   eig' = <<eigenstates(h, w, idx)>>
    /\ pc' = IF ctx = "energies" THEN "plot_energies" ELSE "densities"
    /\ UNCHANGED <<ctx, err, lattices, lattice_size, time, gaussian_mu, syst,
                   psi, y3, line, frame>>

\* System.eigenstates, called by showWavefunction and by showEnergies
Solve ==
    /\ pc = "eigenstates"
    /\ \E h \in {hamiltonian_submatrix(syst[1])} :
           \E w \in SolverOutputs(h.dim) :
               \E idx \in ArgSorts(w) :
                   eig' = <<eigenstates(h, w, idx)>>
    /\ pc' = IF ctx = "energies" THEN "plot_energies" ELSE "densities"
    /\ UNCHANGED <<ctx, err, lattices, lattice_size, time, gaussian_mu, syst,
                   psi, y3, line, frame>>

\* showWavefunction, lines 175-184: x_coords, psi1, psi2.  np.linspace
\* raises ValueError for a negative number of samples; a column index past
\* the last column raises IndexError.
Densities ==
    /\ pc = "densities"
    /\ LET ev == eig[1].eigenVectors
           c0 == Column(ev, 0)
           c1 == Column(ev, 1)
           c2 == Column(ev, 2)
           c3 == Column(ev, 3)
       IN  IF lattices < 0
           THEN /\ err' = "ValueError"
                /\ pc' = "raised"
                /\ UNCHANGED psi
           ELSE IF c0 = <<>> \/ c1 = <<>> \/ c2 = <<>> \/ c3 = <<>>
           THEN /\ err' = "IndexError"
                /\ pc' = "raised"
                /\ UNCHANGED psi
           ELSE /\ psi' = <<[x    |-> linspace(lattices),
                             psi1 |-> c0 \o c1,
                             psi2 |-> c2 \o c3,
                             h    |-> eig[1].h]>>
                /\ pc' = CASE ctx = "anim_init" -> "anim_setup"
                           [] ctx = "frame"     -> "curve"
                           [] OTHER             -> "save_pdf"
                /\ UNCHANGED err
    /\ eig' = <<>>
    /\ UNCHANGED <<ctx, lattices, lattice_size, time, gaussian_mu, syst, y3,
                   line, frame>>

\* animateWavefunction, lines 207-225: the potential curve and the axes of
\* the figure; FuncAnimation then calls animate(0), animate(1), ...
anim_setup ==
    /\ pc = "anim_setup"
    /\ y3' = <<vpotential(psi[1].x)>>
    /\ frame' = 0
    /\ pc' = "animate_frame"
    /\ UNCHANGED <<ctx, err, lattices, lattice_size, time, gaussian_mu, syst,
                   eig, psi, line>>

\* animate(i), line 237: the frame's time; its locals start empty
animate_time ==
    /\ pc = "animate_frame"
    /\ time' = FrameTime(frame)
    /\ psi' = <<>>
    /\ y3' = <<>>
    /\ ctx' = "frame"
    /\ pc' = "eigenstates"
    /\ UNCHANGED <<err, lattices, lattice_size, gaussian_mu, syst, eig, line,
                   frame>>

\* animate(i), lines 244-245: y3 = vpotential(x)
animate_curve ==
    /\ pc = "curve"
    /\ y3' = <<vpotential(psi[1].x)>>
    /\ pc' = "render"
    /\ UNCHANGED <<ctx, err, lattices, lattice_size, time, gaussian_mu, syst,
                   eig, psi, line, frame>>

\* animate(i), lines 246-253: the series go to the plot lines (auTonm and
\* hartreeToeV only rescale them for display).  The lines keep the
\* Hamiltonian the densities came from and the curve.
animate_render ==
    /\ pc = "render"
    /\ line' = <<[frame |-> frame, h |-> psi[1].h, y3 |-> y3[1]]>>
    /\ frame' = frame + 1
    /\ pc' = IF frame + 1 < FramesRun THEN "animate_frame" ELSE "main_reset"
    /\ UNCHANGED <<ctx, err, lattices, lattice_size, time, gaussian_mu, syst,
                   eig, psi, y3>>

\* mutant: the time of the last frame is kept
main_reset_keep_time ==
    /\ pc = "main_reset"
    /\ gaussian_mu' = RDiv(RMul(R(lattices), lattice_size), R(4))
    /\ psi' = <<>>
    /\ y3' = <<>>
    /\ ctx' = "main"
    /\ pc' = "show_energies"
    /\ UNCHANGED <<err, lattices, lattice_size, time, syst, eig, line, frame>>

\* main, lines 274-275
main_reset ==
    /\ pc = "main_reset"
    /\ time' = R(0)
    /\ gaussian_mu' = RDiv(RMul(R(lattices), lattice_size), R(4))
    /\ psi' = <<>>
    /\ y3' = <<>>
    /\ ctx' = "main"
    /\ pc' = "show_energies"
    /\ UNCHANGED <<err, lattices, lattice_size, syst, eig, line, frame>>

\* showEnergies, line 141, up to the call of eigenstates
showEnergies ==
    /\ pc = "show_energies"
    /\ gaussian_mu' = RDiv(R(total_length_au), R(4))
    /\ ctx' = "energies"
    /\ pc' = "eigenstates"
    /\ UNCHANGED <<err, lattices, lattice_size, time, syst, eig, psi, y3, line,
                   frame>>

\* showEnergies, lines 143-162: the potential curve (a local, dropped on
\* return) and the three lowest eigenvalues (IndexError with fewer than
\* three); main then calls showWavefunction()
plot_energies ==
    /\ pc = "plot_energies"
    /\ IF Len(eig[1].eigenValues) < 3
       THEN /\ err' = "IndexError"
            /\ pc' = "raised"
            /\ UNCHANGED ctx
       ELSE /\ ctx' = "static"
            /\ pc' = "eigenstates"
            /\ UNCHANGED err
    /\ eig' = <<>>
    /\ UNCHANGED <<lattices, lattice_size, time, gaussian_mu, syst, psi, y3,
                   line, frame>>

\* showWavefunction(animate=False), lines 186-198: the figure is saved
save_pdf ==
    /\ pc = "save_pdf"
    /\ pc' = "done"
    /\ UNCHANGED <<ctx, err, lattices, lattice_size, time, gaussian_mu, syst,
                   eig, psi, y3, line, frame>>

Next ==
    \/ Construct
    \/ make_system
    \/ animateWavefunction
    \/ Solve
    \/ Densities
    \/ anim_setup
    \/ animate_time
    \/ animate_curve
    \/ animate_render
    \/ main_reset
    \/ showEnergies
    \/ plot_energies
    \/ save_pdf

Spec == Init /\ [][Next]_vars
\* ------------------------------------------------------------------------
\* Properties
\* ------------------------------------------------------------------------
Quarter == RDiv(R(total_length_au), R(4))
InWell(x) == RLe(R(0), x) /\ RLe(x, R(total_length_au))

\* C1: eigenstates() returns the eigenvalues in non-decreasing order, and
\* column j of the returned eigenvectors is the column the solver paired
\* with the value now at position j; the returned pairs are a permutation
\* of the solver's pairs.
C1_SortedPairs ==
    eig # <<>> =>
        LET r == eig[1]
            n == Len(r.w)
        IN  /\ Len(r.eigenValues) = n /\ Len(r.eigenVectors) = n
            /\ \A j \in 1 .. n - 1 : r.eigenValues[j] <= r.eigenValues[j + 1]
            /\ {r.eigenVectors[j] : j \in 1 .. n} = 1 .. n
            /\ \A j \in 1 .. n : r.eigenValues[j] = r.w[r.eigenVectors[j]]

\* a solve whose solver output was out of order and had a tie
C1_Witness ==
    /\ eig # <<>>
    /\ Len(eig[1].w) >= 4
    /\ \E j \in 1 .. Len(eig[1].w) - 1 : eig[1].w[j] > eig[1].w[j + 1]
    /\ \E j \in 1 .. Len(eig[1].w) - 1 : eig[1].eigenValues[j] = eig[1].eigenValues[j + 1]

\* C2 (as claimed): for every site i the on-site block is
\* (2C/h^2 + V(x_i)) I + A sigma_x + B x_i sigma_y and every hopping block
\* is -C/h^2 I, with h the lattice spacing total_length_au / lattices and
\* x_i = i * h the position at which V is evaluated.
C2_BlocksUseLatticeSpacing ==
    eig # <<>> =>
        LET h == eig[1].h
        IN  /\ \A i \in DOMAIN h.onsite :
                 LET x_i == RMul(R(i), lattice_size)
                 IN  h.onsite[i] =
                        [kin |-> [c |-> RMul(R(2), C_constant), a |-> lattice_size],
                         V   |-> potential(x_i),
                         sx  |-> A_constant,
                         sy  |-> RMul(B_constant, x_i)]
            /\ \A p \in DOMAIN h.hop :
                 h.hop[p] = [c |-> RNeg(C_constant), a |-> lattice_size]

\* positions below the well, at its two ends, inside it and above it
ProbePositions ==
    {R(0 - total_length_au), R(0 - 1), R(0), RDiv(R(total_length_au), R(200)),
     RDiv(R(total_length_au), R(4)), RDiv(R(total_length_au), R(2)),
     R(total_length_au), R(total_length_au + 1), R(2 * total_length_au)}

\* C3: potential(x) is the sentinel exactly when x < 0 or
\* x > total_length_au; on the closed interval, both ends included, it is
\* 0.002 * gaussian(x, total_length_au / 14), a value between 0 and 0.002.
\* Checked where the potential is about to be bound into the Hamiltonian and
\* on every curve the program computes.
C3_PotentialWell ==
    /\ pc = "eigenstates" =>
         \A x \in ProbePositions :
            /\ (potential(x) = R(sentinel)) <=> ~InWell(x)
            /\ InWell(x) =>
                 /\ potential(x) =
                      RMul(<<1, 500>>, gaussian(x, RDiv(R(total_length_au), R(14))))
                 /\ RLe(R(0), potential(x)) /\ RLe(potential(x), <<1, 500>>)
    /\ y3 # <<>> =>
         \A k \in 1 .. Len(y3[1]) :
            /\ y3[1][k] # R(sentinel)
            /\ RLe(R(0), y3[1][k]) /\ RLe(y3[1][k], <<1, 500>>)

\* a curve of a later frame that includes both ends of the well
C3_Witness ==
    /\ y3 # <<>>
    /\ pc = "render"
    /\ frame >= 1
    /\ psi[1].x[1] = R(0)
    /\ psi[1].x[Len(psi[1].x)] = R(total_length_au)
    /\ y3[1][Len(y3[1])] # R(sentinel)

\* C4: in the animation, frame i sets time = (i / pulse_frequency) / N; the
\* pulse centre used by gaussian() is then pulse_velocity * time (gaussian_mu
\* is 0), and it is larger than the centre of the frame before.
C4_PulseCentreAdvances ==
    [][(pc = "animate_frame" /\ pc' = "eigenstates") =>
         /\ time' = RDiv(RDiv(R(frame), R(pulse_frequency)), R(number_of_frames))
         /\ gaussian_mu' = R(0)
         /\ PulseCentre(gaussian_mu', time') = RMul(pulse_velocity, time')
         /\ frame > 0 =>
              RLt(PulseCentre(gaussian_mu, time), PulseCentre(gaussian_mu', time'))]_vars

C4_Witness ==
    /\ ctx = "frame"
    /\ pc = "eigenstates"
    /\ frame >= 1
    /\ RLt(R(0), pulse_centre)

\* C5: in every frame the time is set first, then the Hamiltonian is bound
\* and solved, then the densities are computed, then the curve, and only
\* then are they handed to the plot lines; what the lines receive was
\* computed from that frame's time, never from an earlier solve.
C5_FrameFromOwnTime ==
    /\ (ctx = "frame" /\ pc \in {"eigenstates", "densities", "curve", "render"}) =>
         time = FrameTime(frame)
    /\ (ctx = "frame" /\ pc = "eigenstates") => (eig = <<>> /\ psi = <<>> /\ y3 = <<>>)
    /\ (ctx = "frame" /\ pc = "densities") => (eig # <<>> /\ psi = <<>> /\ y3 = <<>>)
    /\ (ctx = "frame" /\ pc = "curve") =>
         /\ psi # <<>> /\ y3 = <<>>
         /\ psi[1].h = hamiltonian_submatrix(syst[1])
    /\ (ctx = "frame" /\ pc = "render") =>
         /\ psi # <<>> /\ y3 # <<>>
         /\ psi[1].h = hamiltonian_submatrix(syst[1])
         /\ y3[1] = vpotential(linspace(lattices))
    /\ (ctx = "frame" /\ pc \in {"animate_frame", "main_reset"}) =>
         /\ line # <<>>
         /\ line[1].frame = frame - 1
         /\ time = FrameTime(line[1].frame)
         /\ line[1].h = hamiltonian_submatrix(syst[1])
         /\ line[1].y3 = vpotential(linspace(lattices))

\* the second frame has been handed to the lines
C5_Witness ==
    /\ ctx = "frame"
    /\ pc \in {"animate_frame", "main_reset"}
    /\ line # <<>>
    /\ line[1].frame >= 1

\* C6 (as claimed): a site count <= 0 is rejected with an error when the
\* System is constructed; no System with lattices <= 0 reaches make_system
\* or a solve.
C6_NonPositiveRejected ==
    (pc # "construct" /\ lattices <= 0) =>
        /\ pc = "raised"
        /\ err = "ZeroDivisionError"
        /\ syst = <<>>

\* C7: with fewer than 4 eigenpairs the density computation of
\* showWavefunction raises and returns no densities; with at least 4 it
\* reads columns 0, 1 for level 1 and columns 2, 3 for level 2.
C7_DensityColumns ==
    [][pc = "densities" /\ pc' # pc =>
         LET ev == eig[1].eigenVectors
         IN  /\ Len(ev) < 4 =>
                  (pc' = "raised" /\ err' \in {"IndexError", "ValueError"} /\ psi' = <<>>)
             /\ Len(ev) >= 4 =>
                  /\ psi' # <<>>
                  /\ psi'[1].psi1 = <<ev[1], ev[2]>>
                  /\ psi'[1].psi2 = <<ev[3], ev[4]>>
                  /\ err' = "none"]_vars

\* the one-site system: two eigenpairs, IndexError
C7_Witness ==
    /\ pc = "raised"
    /\ err = "IndexError"
    /\ lattices = 1
    /\ psi = <<>>

\* C8: the system built for site count n holds exactly the sites 0 .. n-1,
\* hoppings exactly between i and i+1 with both in that range (none below
\* site 0, none above site n-1, none between n-1 and 0), and the assembled
\* matrix has dimension 2n.
C8_OpenChain ==
    syst # <<>> =>
        /\ syst[1].sites = 0 .. lattices - 1
        /\ syst[1].hops = {<<i, i + 1>> : i \in 0 .. lattices - 2}
        /\ (eig # <<>> /\ lattices > 0) =>
             /\ eig[1].h.dim = 2 * lattices
             /\ DOMAIN eig[1].h.onsite = 0 .. lattices - 1
             /\ DOMAIN eig[1].h.hop = syst[1].hops

C8_Witness ==
    /\ syst # <<>>
    /\ eig # <<>>
    /\ lattices >= 2
    /\ Cardinality(syst[1].hops) = lattices - 1

\* C9: every solve of the animation starts with gaussian_mu = 0; the solves
\* of showEnergies and of the final showWavefunction start with time = 0 and
\* gaussian_mu = total_length_au / 4, whatever time the last frame left.
C9_SolveBindings ==
    pc = "eigenstates" =>
        /\ ctx \in {"anim_init", "frame", "energies", "static"}
        /\ ctx \in {"anim_init", "frame"} => gaussian_mu = R(0)
        /\ ctx \in {"energies", "static"} =>
             /\ time = R(0)
             /\ gaussian_mu = Quarter

\* the static solve after an animation whose last frame had time > 0
C9_Witness ==
    /\ pc = "eigenstates"
    /\ ctx = "static"
    /\ line # <<>>
    /\ RLt(R(0), FrameTime(line[1].frame))

\* C10: with lattices > 0, every site i of the system has its position
\* i * lattice_size inside [0, total_length_au], so kwantPotential never
\* returns the sentinel and the sentinel is in no assembled matrix.
C10_NoWallInMatrix ==
    /\ (pc = "eigenstates" /\ lattices > 0) =>
         \A i \in syst[1].sites :
            /\ InWell(RMul(SitePos(i), lattice_size))
            /\ kwantPotential(SitePos(i)) # R(sentinel)
    /\ (eig # <<>> /\ lattices > 0) =>
         \A i \in DOMAIN eig[1].h.onsite : eig[1].h.onsite[i].V # R(sentinel)

C10_Witness ==
    /\ eig # <<>>
    /\ lattices >= 2
    /\ RLt(R(0), time)
    /\ DOMAIN eig[1].h.onsite = 0 .. lattices - 1
====
